---- MODULE Spec2Model ----
(***************************************************************************)
(* IMPClusterProcessor (processor.py): classification of scenario runs     *)
(* into an IMP cluster.  apply() walks df.index; for every run it runs the *)
(* required-data gate, the SDG allow-list lookup or the rule loop over     *)
(* code_list.mapping, and writes the membership with df.set_meta.          *)
(*                                                                         *)
(* Strings that the code splits or concatenates (variable names, model and *)
(* scenario names) are sequences of tokens with "|" and "@" as tokens of   *)
(* their own.  Numbers that the code divides or interpolates are exact     *)
(* rationals <<numerator, denominator>> with a positive denominator.       *)
(* The data rows of the model are the rows of region World.                *)
(***************************************************************************)
EXTENDS Integers, Sequences, FiniteSets, TLC

VARIABLES
    cluster_name,     \* self.cluster_name
    code_list,        \* self.code_list.mapping, in file order
    df,               \* the dataset apply() is given, in df.index order
    meta,             \* the cluster's column of df.meta: run -> 0 | 1, no
                      \* entry while the value is undefined
    i,                \* position in df.index of the run the loop is at
    k,                \* position in code_list.mapping of the rule loop
    pc,               \* "gate" (lines 43-71), "select" (73-83), "rules"
                      \* (84-158), "done" (159), "error" (a query raised)
    highren_alt_var,  \* the local of the same name
    evals,            \* spy: per run, the rules the loop body was run for
    writes,           \* spy: per run, the number of df.set_meta calls
    lookups,          \* spy: per run, the number of allow-list tests
    pass,             \* 1: apply() on the dataset; 2: on one of its runs
    prev              \* the memberships of pass 1, by (model, scenario)

vars == <<cluster_name, code_list, df, meta, i, k, pc, highren_alt_var,
          evals, writes, lookups, pass, prev>>

\* ------------------------------------------------------------- bounds
\* Longest dataset (number of runs in df.index) the model enumerates.
MaxRuns == 2
\* Longest rule catalog (code_list.mapping) the model enumerates.
MaxRules == 2

\* ------------------------------------------------------------ strings
Range(s) == {s[n] : n \in DOMAIN s}

\* str.split(sep)[0]: the part of s before the first sep (all of s if none).
RECURSIVE SplitFirst(_, _)
SplitFirst(s, sep) ==
    IF s = <<>> \/ Head(s) = sep THEN <<>>
    ELSE <<Head(s)>> \o SplitFirst(Tail(s), sep)

\* Mutant of ms_str: the separator is left out.
ms_str_NoSeparator(model, scenario) == model \o scenario

\* f'{model}|{scenario}'
ms_str(model, scenario) == model \o <<"|">> \o scenario

\* if '@' in varname: varname = varname.split('@')[0]
BaseName(varname) ==
    IF "@" \in Range(varname) THEN SplitFirst(varname, "@") ELSE varname

\* ---------------------------------------------------------- rationals
RAdd(a, b) == <<a[1] * b[2] + b[1] * a[2], a[2] * b[2]>>
RLt(a, b) == a[1] * b[2] < b[1] * a[2]
RLe(a, b) == a[1] * b[2] <= b[1] * a[2]
Rat(n) == <<n, 1>>

Min(S) == CHOOSE x \in S : \A y \in S : x <= y
Max(S) == CHOOSE x \in S : \A y \in S : x >= y

\* Sum of the rationals f[x], x in S.
RECURSIVE RSum(_, _)
RSum(f, S) ==
    IF S = {} THEN Rat(0)
    ELSE LET x == CHOOSE y \in S : TRUE IN RAdd(f[x], RSum(f, S \ {x}))

\* ------------------------------------------------------------- inputs
\* Variable identifiers of the definition files, as token sequences.
PE == <<"Primary Energy">>
REN == <<"Primary Energy", "|", "Renewables (incl. Biomass)">>
BIO == <<"Primary Energy", "|", "Biomass">>
NBR == <<"Primary Energy", "|", "Non-Biomass Renewables">>
COAL == <<"Primary Energy", "|", "Coal">>
CO2 == <<"Emissions", "|", "CO2">>

EJ == "EJ/yr"
MT == "Mt CO2/yr"

Clusters == {"HighRen", "SDG", "LowDem"}
KnownTypes == {"abs", "change", "share", "cum"}

\* One scenario run: its (model, scenario) key and its World time series,
\* a function from the measurands (variable, unit) it reports to a function
\* from the years reported to the value.
Run(model, scenario, data) ==
    [model |-> model, scenario |-> scenario, data |-> data]

\* reports every variable, on the years 1..4
RunFull ==
    Run(<<"A">>, <<"B", "|", "C">>,
        (<<CO2, MT>> :> ((1 :> -5) @@ (2 :> -3) @@ (3 :> 2) @@ (4 :> 2)))
     @@ (<<PE, EJ>> :> ((1 :> 20) @@ (2 :> 40)))
     @@ (<<REN, EJ>> :> ((1 :> 10) @@ (2 :> 10)))
     @@ (<<COAL, EJ>> :> ((1 :> 10) @@ (2 :> 30))))

\* no renewables aggregate but its two parts; reports no year 2
RunAlt ==
    Run(<<"A", "|", "B">>, <<"C">>,
        (<<CO2, MT>> :> ((1 :> -4) @@ (3 :> -4) @@ (4 :> 1)))
     @@ (<<PE, EJ>> :> ((1 :> 40) @@ (3 :> 40)))
     @@ (<<BIO, EJ>> :> ((1 :> 5) @@ (3 :> 5)))
     @@ (<<NBR, EJ>> :> ((1 :> 5) @@ (3 :> 5)))
     @@ (<<COAL, EJ>> :> ((1 :> 30) @@ (3 :> 30))))

\* negative emissions in the last year reported
RunNeg ==
    Run(<<"D">>, <<"E">>,
        (<<CO2, MT>> :> ((1 :> -5) @@ (2 :> -3) @@ (3 :> 2) @@ (4 :> -3)))
     @@ (<<PE, EJ>> :> (1 :> 10))
     @@ (<<REN, EJ>> :> (1 :> 8))
     @@ (<<COAL, EJ>> :> (1 :> 4)))

\* reports no emissions at all
RunNoCO2 ==
    Run(<<"D">>, <<"F">>,
        (<<PE, EJ>> :> (1 :> 10))
     @@ (<<REN, EJ>> :> (1 :> 5))
     @@ (<<COAL, EJ>> :> (1 :> 5)))

\* emissions on the first and the last year only
RunSparse ==
    Run(<<"G">>, <<"H">>,
        (<<CO2, MT>> :> ((1 :> 120) @@ (4 :> 120)))
     @@ (<<PE, EJ>> :> (1 :> 10))
     @@ (<<REN, EJ>> :> (1 :> 2))
     @@ (<<COAL, EJ>> :> (1 :> 9)))

RunPalette == {RunFull, RunAlt, RunNeg, RunNoCO2, RunSparse}

\* One entry of code_list.mapping: the key (variable name, possibly with an
\* "@" qualifier) and code.extra_attributes.  year is the year field split
\* at "-": <<y>> for a single year, <<start, end>> for a range.
Rule(key, type, bound, threshold, year, unit) ==
    [key |-> key, type |-> type, bound |-> bound, threshold |-> threshold,
     year |-> year, unit |-> unit]

RulePalette ==
    { Rule(CO2 \o <<"@", "abs">>, "abs", "upper", <<100, 1>>, <<4>>, MT),
      Rule(CO2 \o <<"@", "chg">>, "change", "upper", <<0, 1>>, <<1, 3>>, MT),
      Rule(CO2, "cum", "lower", <<10, 1>>, <<1, 4>>, MT),
      Rule(CO2 \o <<"@", "c5">>, "cum", "upper", <<5, 1>>, <<1, 4>>, MT),
      Rule(REN, "share", "lower", <<1, 2>>, <<1>>, EJ),
      Rule(COAL, "share", "upper", <<1, 2>>, <<1>>, EJ),
      Rule(PE, "foo", "upper", <<0, 1>>, <<1>>, EJ) }

\* Sequences of n distinct elements of S.
RECURSIVE Arrangements(_, _)
Arrangements(S, n) ==
    IF n = 0 THEN {<<>>}
    ELSE UNION {{Append(a, x) : x \in S \ Range(a)} : a \in Arrangements(S, n - 1)}

\* df: 1..MaxRuns runs with distinct (model, scenario) keys, in index order.
Datasets == UNION {Arrangements(RunPalette, n) : n \in 1..MaxRuns}

\* code_list.mapping: 0..MaxRules rules with distinct keys, in file order.
Catalogs == UNION {Arrangements(RulePalette, n) : n \in 0..MaxRules}

\* definitions/metadata/sdg_scenarios/imp_sdg.yaml
sdg_scenarios == {<<"A", "|", "B", "|", "C">>, <<"D", "|", "F">>}

\* definitions/requirements/req_data_{cluster_name.lower()}.yaml
req_data(cluster) ==
    CASE cluster = "HighRen" -> {<<CO2, MT>>, <<PE, EJ>>, <<REN, EJ>>}
      [] cluster = "SDG" -> {<<CO2, MT>>}
      [] OTHER -> {<<CO2, MT>>, <<PE, EJ>>, <<REN, EJ>>, <<COAL, EJ>>}

\* definitions/requirements/req_data_highren_alt.yaml
req_data_highren_alt == {<<CO2, MT>>, <<PE, EJ>>, <<BIO, EJ>>, <<NBR, EJ>>}

\* ------------------------------------------------- time-series queries
\* The operations of IamDataFrame that apply() and calc_share() call, by
\* what they return for the rows of one run.
\* The empty selection (a frame or a series without rows).
NoRows == <<>>

\* df.time: every year some row of the dataset reports.
Time(d) ==
    UNION {UNION {DOMAIN d[n].data[m] : m \in DOMAIN d[n].data} : n \in DOMAIN d}

Restrict(series, years) == [y \in DOMAIN series \cap years |-> series[y]]

\* frame.filter(**slice_kwargs): the rows of one run (index), region and
\* measurand on the years asked for, as a function year -> value.
Filter(frame, slice_kwargs) ==
    IF /\ slice_kwargs.index = <<frame.model, frame.scenario>>
       /\ slice_kwargs.region = "World"
       /\ slice_kwargs.measurand \in DOMAIN frame.data
    THEN Restrict(frame.data[slice_kwargs.measurand], slice_kwargs.year)
    ELSE NoRows

\* frame.validate(upper_bound=T | lower_bound=T, **slice_kwargs) is not None:
\* some selected row lies above the upper or below the lower bound.
Validate(frame, bound, threshold, slice_kwargs) ==
    LET rows == Filter(frame, slice_kwargs)
    IN \E y \in DOMAIN rows :
          \/ bound = "upper" /\ RLt(threshold, rows[y])
          \/ bound = "lower" /\ RLt(rows[y], threshold)

\* The frame with its integer values as rationals.
AsRat(frame) ==
    [frame EXCEPT !.data =
        [m \in DOMAIN frame.data |->
            [y \in DOMAIN frame.data[m] |-> Rat(frame.data[m][y])]]]

\* frame.offset(year=y0): every series minus its own value at y0; a series
\* without a value at y0 keeps no row.
Offset(frame, y0) ==
    [frame EXCEPT !.data =
        [m \in DOMAIN frame.data |->
            IF y0 \in DOMAIN frame.data[m]
            THEN [y \in DOMAIN frame.data[m] |->
                     frame.data[m][y] - frame.data[m][y0]]
            ELSE NoRows]]

\* The years of a series in increasing order: the row order of .data.
RECURSIVE SortedYears(_)
SortedYears(S) ==
    IF S = {} THEN <<>> ELSE <<Min(S)>> \o SortedYears(S \ {Min(S)})

\* calc_share: the numerators' and the denominator's rows are fetched with
\* the caller's slice_kwargs, whose measurand is overwritten for each fetch
\* and is left at the denominator's; the values are combined row by row
\* (by position in .data) and carried by a copy of the denominator's rows.
\* A position some numerator lacks, and 0/0, give NaN, which is no row.
\* The result is the derived frame and the caller's selector as left behind.
calc_share(frame, varlist, denom_var, slice_kwargs) ==
    LET unit == slice_kwargs.measurand[2]
        var_data == [n \in DOMAIN varlist |->
            Filter(frame, [slice_kwargs EXCEPT !.measurand = <<varlist[n], unit>>])]
        kwargs_after == [slice_kwargs EXCEPT !.measurand = <<denom_var, unit>>]
        denom_data == Filter(frame, kwargs_after)
        denom_years == SortedYears(DOMAIN denom_data)
        NumAt(n, p) == var_data[n][SortedYears(DOMAIN var_data[n])[p]]
        RECURSIVE Numerator(_, _)
        Numerator(n, p) == IF n = 0 THEN 0 ELSE NumAt(n, p) + Numerator(n - 1, p)
        Defined(p) ==
            /\ \A n \in DOMAIN varlist : p <= Cardinality(DOMAIN var_data[n])
            /\ ~(Numerator(Len(varlist), p) = 0 /\ denom_data[denom_years[p]] = 0)
        Ratio(p) ==
            LET num == Numerator(Len(varlist), p)
                den == denom_data[denom_years[p]]
            IN IF den < 0 THEN <<-num, -den>> ELSE <<num, den>>
        rows == {p \in DOMAIN denom_years : Defined(p)}
        share_data == [y \in {denom_years[p] : p \in rows} |->
            Ratio(CHOOSE p \in rows : denom_years[p] = y)]
    IN [share_df |->
           [frame EXCEPT !.data =
               IF rows = {} THEN NoRows ELSE (<<denom_var, unit>> :> share_data)],
        slice_kwargs |-> kwargs_after]

\* Linear interpolation of a series at year y between its neighbours.
Interpolated(series, y) ==
    LET lo == Max({x \in DOMAIN series : x < y})
        hi == Min({x \in DOMAIN series : x > y})
    IN <<series[lo] * (hi - y) + series[hi] * (y - lo), hi - lo>>

\* frame.filter(**slice_kwargs).interpolate(time).data for one series:
\* the rows selected plus, for every year of `time` strictly between two of
\* them, the linearly interpolated value; years outside stay without value.
\* The query fails when nothing is selected, and when a single row is to be
\* interpolated to further years.
InterpolateFails(rows, time) ==
    \/ DOMAIN rows = {}
    \/ Cardinality(DOMAIN rows) = 1 /\ ~(time \subseteq DOMAIN rows)

Interpolate(rows, time) ==
    LET inner == {y \in time \ DOMAIN rows :
                     Min(DOMAIN rows) < y /\ y < Max(DOMAIN rows)}
    IN [y \in DOMAIN rows \cup inner |->
           IF y \in DOMAIN rows THEN Rat(rows[y]) ELSE Interpolated(rows, y)]

\* range(start, end)
PyRange(start, end) == {y \in start..end : y < end}

\* total_neg: minus the sum of the negative values of data.
TotalNeg(data) ==
    LET neg == {y \in DOMAIN data : RLt(data[y], Rat(0))}
    IN RSum([y \in neg |-> <<-data[y][1], data[y][2]>>], neg)

\* ------------------------------------------------------ rule evaluation
\* One iteration of the loop over code_list.mapping.items() up to the test
\* of not_valid: the qualifier is stripped from the key, the selector is
\* built, and the rule is dispatched on attrs['type'].  A type that is none
\* of the four matches no branch and leaves not_valid at None.
\*   err        the time-series query raised
\*   not_valid  not_valid is not None
\*   varlist    the numerators handed to calc_share (share rules)
\*   measurand  the measurand of slice_kwargs when the bound was checked
EvalRule(rule, sub_df, d, cluster, alt) ==
    LET varname == BaseName(rule.key)
        selector(years) ==
            [index |-> <<sub_df.model, sub_df.scenario>>, region |-> "World",
             measurand |-> <<varname, rule.unit>>, year |-> years]
        result(e, nv, vl, kw) ==
            [err |-> e, not_valid |-> nv, varlist |-> vl, measurand |-> kw.measurand]
    IN CASE rule.type = "abs" ->
              LET slice_kwargs == selector({rule.year[1]})
              IN result(FALSE,
                        Validate(AsRat(sub_df), rule.bound, rule.threshold, slice_kwargs),
                        <<>>, slice_kwargs)
         [] rule.type = "change" ->
              LET slice_kwargs == selector({rule.year[2]})
                  offset_year == rule.year[1]
              IN result(FALSE,
                        Validate(AsRat(Offset(sub_df, offset_year)),
                                 rule.bound, rule.threshold, slice_kwargs),
                        <<>>, slice_kwargs)
         [] rule.type = "share" ->
              LET slice_kwargs == selector({rule.year[1]})
                  varlist == IF cluster = "HighRen" /\ alt
                             THEN <<BIO, NBR>> ELSE <<varname>>
                  share == calc_share(sub_df, varlist, SplitFirst(varname, "|"),
                                      slice_kwargs)
              IN result(FALSE,
                        Validate(share.share_df, rule.bound, rule.threshold,
                                 share.slice_kwargs),
                        varlist, share.slice_kwargs)
         [] rule.type = "cum" ->
              LET slice_kwargs == selector(PyRange(rule.year[1], rule.year[2]))
                  rows == Filter(sub_df, slice_kwargs)
              IN IF InterpolateFails(rows, Time(d))
                 THEN result(TRUE, FALSE, <<>>, slice_kwargs)
                 ELSE result(FALSE,
                             RLe(TotalNeg(Interpolate(rows, Time(d))), rule.threshold),
                             <<>>, slice_kwargs)
         [] OTHER -> result(FALSE, FALSE, <<>>, selector({}))

\* ---------------------------------------------------------------- apply
\* check_required_data_per_model(sub_df, model): the required measurands
\* the run does not report.
missing_data(sub_df, cluster) ==
    {m \in req_data(cluster) : m \notin DOMAIN sub_df.data}

missing_alt_data(sub_df) ==
    {m \in req_data_highren_alt : m \notin DOMAIN sub_df.data}

\* df.set_meta(META_v, self.cluster_name, index=idx) for the run at n.
set_meta(m, n, v) == [j \in DOMAIN m \cup {n} |-> IF j = n THEN v ELSE m[j]]

\* The processor as constructed, and apply() entered on a dataset without the
\* cluster's meta column.  The locals k and highren_alt_var are unbound until
\* the code first assigns them; 1 and FALSE stand in and are never read before.
Init ==
    /\ cluster_name \in Clusters
    /\ code_list \in Catalogs
    /\ df \in Datasets
    /\ meta = <<>>
    /\ i = 1
    /\ k = 1
    /\ pc = "gate"
    /\ highren_alt_var = FALSE
    /\ evals = [n \in DOMAIN df |-> <<>>]
    /\ writes = [n \in DOMAIN df |-> 0]
    /\ lookups = [n \in DOMAIN df |-> 0]
    /\ pass = 1
    /\ prev = <<>>

Config == <<cluster_name, code_list, df, pass, prev>>

\* Mutant of Reject: the loop goes on without the membership being written.
Reject_NoWrite ==
    /\ i' = i + 1
    /\ pc' = "gate"
    /\ UNCHANGED <<meta, writes>>

\* set_meta(0) and continue: the run is rejected, the loop goes on.
Reject ==
    /\ meta' = set_meta(meta, i, 0)
    /\ writes' = [writes EXCEPT ![i] = @ + 1]
    /\ i' = i + 1
    /\ pc' = "gate"

\* Mutant of GateReject: the 0 is written but the continue is missing, so
\* the run goes on to the allow-list or to the rules.
GateReject_NoContinue ==
    /\ pc = "gate" /\ i <= Len(df)
    /\ missing_data(df[i], cluster_name) # {}
    /\ cluster_name # "HighRen"
    /\ meta' = set_meta(meta, i, 0)
    /\ writes' = [writes EXCEPT ![i] = @ + 1]
    /\ highren_alt_var' = FALSE
    /\ pc' = "select"
    /\ UNCHANGED <<Config, i, k, evals, lookups>>

\* missing data, any cluster but HighRen
GateReject ==
    /\ pc = "gate" /\ i <= Len(df)
    /\ missing_data(df[i], cluster_name) # {}
    /\ cluster_name # "HighRen"
    /\ Reject
    /\ UNCHANGED <<Config, k, highren_alt_var, evals, lookups>>

\* HighRen: the alternative variables are missing too
GateAltReject ==
    /\ pc = "gate" /\ i <= Len(df)
    /\ missing_data(df[i], cluster_name) # {}
    /\ cluster_name = "HighRen"
    /\ missing_alt_data(df[i]) # {}
    /\ Reject
    /\ UNCHANGED <<Config, k, highren_alt_var, evals, lookups>>

\* HighRen: the alternative variables are there
GateAlt ==
    /\ pc = "gate" /\ i <= Len(df)
    /\ missing_data(df[i], cluster_name) # {}
    /\ cluster_name = "HighRen"
    /\ missing_alt_data(df[i]) = {}
    /\ highren_alt_var' = TRUE
    /\ pc' = "select"
    /\ UNCHANGED <<Config, meta, i, k, evals, writes, lookups>>

\* Mutant of GatePass: the else branch that resets the flag is missing, so
\* the flag of the run before is carried over.
GatePass_KeepFlag ==
    /\ pc = "gate" /\ i <= Len(df)
    /\ missing_data(df[i], cluster_name) = {}
    /\ pc' = "select"
    /\ UNCHANGED <<Config, meta, i, k, highren_alt_var, evals, writes, lookups>>

\* nothing is missing
GatePass ==
    /\ pc = "gate" /\ i <= Len(df)
    /\ missing_data(df[i], cluster_name) = {}
    /\ highren_alt_var' = FALSE
    /\ pc' = "select"
    /\ UNCHANGED <<Config, meta, i, k, evals, writes, lookups>>

\* (1) hand-picked scenarios of the SDG cluster
AllowList ==
    /\ pc = "select"
    /\ cluster_name = "SDG"
    /\ meta' = set_meta(meta, i,
                  IF ms_str(df[i].model, df[i].scenario) \in sdg_scenarios
                  THEN 1 ELSE 0)
    /\ lookups' = [lookups EXCEPT ![i] = @ + 1]
    /\ writes' = [writes EXCEPT ![i] = @ + 1]
    /\ i' = i + 1
    /\ pc' = "gate"
    /\ UNCHANGED <<Config, k, highren_alt_var, evals>>

\* Mutant of Provisional: the provisional membership is 0.
Provisional_Zero ==
    /\ pc = "select"
    /\ cluster_name # "SDG"
    /\ meta' = set_meta(meta, i, 0)
    /\ writes' = [writes EXCEPT ![i] = @ + 1]
    /\ k' = 1
    /\ pc' = "rules"
    /\ UNCHANGED <<Config, i, highren_alt_var, evals, lookups>>

\* (2) first assume that the run belongs to the cluster
Provisional ==
    /\ pc = "select"
    /\ cluster_name # "SDG"
    /\ meta' = set_meta(meta, i, 1)
    /\ writes' = [writes EXCEPT ![i] = @ + 1]
    /\ k' = 1
    /\ pc' = "rules"
    /\ UNCHANGED <<Config, i, highren_alt_var, evals, lookups>>

\* Mutant of Evaluate: a violation writes the 0 but does not break, so the
\* loop goes on to the next rule.
Evaluate_NoBreak ==
    /\ pc = "rules" /\ k <= Len(code_list)
    /\ LET r == EvalRule(code_list[k], df[i], df, cluster_name, highren_alt_var)
       IN /\ evals' = [evals EXCEPT ![i] = Append(@,
                 [k |-> k, err |-> r.err, not_valid |-> r.not_valid,
                  alt |-> highren_alt_var, varlist |-> r.varlist,
                  measurand |-> r.measurand])]
          /\ IF r.err
             THEN /\ pc' = "error"
                  /\ UNCHANGED <<meta, writes, i, k>>
             ELSE /\ k' = k + 1
                  /\ meta' = IF r.not_valid THEN set_meta(meta, i, 0) ELSE meta
                  /\ writes' = IF r.not_valid
                               THEN [writes EXCEPT ![i] = @ + 1] ELSE writes
                  /\ UNCHANGED <<i, pc>>
    /\ UNCHANGED <<Config, highren_alt_var, lookups>>

\* one iteration of the rule loop
Evaluate ==
    /\ pc = "rules" /\ k <= Len(code_list)
    /\ LET r == EvalRule(code_list[k], df[i], df, cluster_name, highren_alt_var)
       IN /\ evals' = [evals EXCEPT ![i] = Append(@,
                 [k |-> k, err |-> r.err, not_valid |-> r.not_valid,
                  alt |-> highren_alt_var, varlist |-> r.varlist,
                  measurand |-> r.measurand])]
          /\ IF r.err
             THEN /\ pc' = "error"
                  /\ UNCHANGED <<meta, writes, i, k>>
             ELSE IF r.not_valid
             THEN /\ Reject
                  /\ UNCHANGED k
             ELSE /\ k' = k + 1
                  /\ UNCHANGED <<meta, writes, i, pc>>
    /\ UNCHANGED <<Config, highren_alt_var, lookups>>

\* the catalog is exhausted: the provisional 1 stands
LoopEnd ==
    /\ pc = "rules" /\ k > Len(code_list)
    /\ i' = i + 1
    /\ pc' = "gate"
    /\ UNCHANGED <<Config, meta, k, highren_alt_var, evals, writes, lookups>>

\* return df
Return ==
    /\ pc = "gate" /\ i > Len(df)
    /\ pc' = "done"
    /\ UNCHANGED <<Config, meta, i, k, highren_alt_var, evals, writes, lookups>>

\* The caller applies the processor once more, to one run of the dataset
\* on its own (df.filter(model=, scenario=) of the input); the memberships
\* of the first pass are kept in prev, by (model, scenario).
ApplyAgain ==
    /\ pc = "done" /\ pass = 1 /\ Len(df) > 1
    /\ \E n \in DOMAIN df :
          /\ df' = <<df[n]>>
          /\ prev' = [key \in {<<df[j].model, df[j].scenario>> : j \in DOMAIN meta} |->
                         meta[CHOOSE j \in DOMAIN meta :
                                  <<df[j].model, df[j].scenario>> = key]]
    /\ pass' = 2
    /\ meta' = <<>>
    /\ i' = 1
    /\ pc' = "gate"
    /\ evals' = [n \in {1} |-> <<>>]
    /\ writes' = [n \in {1} |-> 0]
    /\ lookups' = [n \in {1} |-> 0]
    /\ k' = 1
    /\ highren_alt_var' = FALSE
    /\ UNCHANGED <<cluster_name, code_list>>

Next ==
    \/ GateReject
    \/ GateAltReject
    \/ GateAlt
    \/ GatePass
    \/ AllowList
    \/ Provisional
    \/ Evaluate
    \/ LoopEnd
    \/ Return
    \/ ApplyAgain

Spec == Init /\ [][Next]_vars

\* =============================================================== claims
\* What the claims speak of, said without the operators of apply().
LacksPrimary(n) == \E m \in req_data(cluster_name) : m \notin DOMAIN df[n].data
LacksAlternate(n) == \E m \in req_data_highren_alt : m \notin DOMAIN df[n].data
\* the loop has moved past the run at n
Finished(n) == n < i
PassedGate(n) ==
    \/ ~LacksPrimary(n)
    \/ cluster_name = "HighRen" /\ ~LacksAlternate(n)
AliasMode(n) == cluster_name = "HighRen" /\ LacksPrimary(n) /\ ~LacksAlternate(n)
InAllowList(n) == df[n].model \o <<"|">> \o df[n].scenario \in sdg_scenarios
\* the verdict of rule kk on the run at n
Verdict(n, kk) == EvalRule(code_list[kk], df[n], df, cluster_name, AliasMode(n))
Clean(n, kk) == LET v == Verdict(n, kk) IN ~v.err /\ ~v.not_valid
FirstViolated(n, kk) ==
    /\ Verdict(n, kk).not_valid
    /\ \A j \in 1..(kk - 1) : Clean(n, j)
\* the spy saw rules 1..len of the catalog, each once, in catalog order
InOrder(n, len) == Len(evals[n]) = len /\ \A p \in 1..len : evals[n][p].k = p
RuleViolated(n) == evals[n] # <<>> /\ evals[n][Len(evals[n])].not_valid

\* C1: in every cluster but HighRen, a run that lacks a required
\* (variable, unit) pair has no rule evaluated and no allow-list lookup, and
\* once the loop has passed it its membership is 0.
C1_GateRejects ==
    \A n \in DOMAIN df :
        (cluster_name # "HighRen" /\ LacksPrimary(n)) =>
            /\ evals[n] = <<>>
            /\ lookups[n] = 0
            /\ n \in DOMAIN meta => meta[n] = 0
            /\ Finished(n) => n \in DOMAIN meta

C1_Witness ==
    /\ pc = "done" /\ cluster_name = "LowDem" /\ Len(code_list) = 2
    /\ \E n \in DOMAIN df : LacksPrimary(n) /\ meta[n] = 0 /\ writes[n] = 1
    /\ \E n \in DOMAIN df : ~LacksPrimary(n) /\ evals[n] # <<>>

\* C2: in a rule-based cluster, for a run that passed the gate, if rule kk
\* is the first rule violated then rules 1..kk are evaluated once each in
\* catalog order, no later rule is ever evaluated, and the membership of the
\* finished run is 0.
C2_ShortCircuit ==
    \A n \in DOMAIN df : \A kk \in DOMAIN code_list :
        (/\ Finished(n) \/ evals[n] # <<>>
         /\ cluster_name # "SDG" /\ PassedGate(n) /\ FirstViolated(n, kk)) =>
            /\ \A p \in DOMAIN evals[n] : evals[n][p].k = p /\ p <= kk
            /\ Finished(n) => InOrder(n, kk) /\ meta[n] = 0

C2_Witness ==
    /\ pc = "done" /\ cluster_name # "SDG" /\ Len(code_list) = 2
    /\ \E n \in DOMAIN df :
          PassedGate(n) /\ FirstViolated(n, 1) /\ InOrder(n, 1) /\ meta[n] = 0
    /\ \E n \in DOMAIN df :
          PassedGate(n) /\ FirstViolated(n, 2) /\ InOrder(n, 2) /\ meta[n] = 0

\* C3 as claimed: in the SDG cluster every finished run has membership 1
\* exactly if "{model}|{scenario}" is in the allow-list, and no rule is
\* evaluated for it.
C3_AllowListOnly ==
    \A n \in DOMAIN df :
        (cluster_name = "SDG" /\ Finished(n)) =>
            /\ evals[n] = <<>>
            /\ meta[n] = 1 <=> InAllowList(n)

\* C3 amended: in the SDG cluster a finished run has membership 1 exactly
\* if it passed the required-data gate and "{model}|{scenario}" is in the
\* allow-list, else 0; the list is looked up once for a run that passed the
\* gate and not at all for one that did not; no rule is evaluated.
C3_AllowListAfterGate ==
    \A n \in DOMAIN df :
        cluster_name = "SDG" =>
            /\ evals[n] = <<>>
            /\ Finished(n) =>
                  /\ meta[n] \in {0, 1}
                  /\ meta[n] = 1 <=> (~LacksPrimary(n) /\ InAllowList(n))
                  /\ lookups[n] = IF LacksPrimary(n) THEN 0 ELSE 1

C3_Witness ==
    /\ pc = "done" /\ cluster_name = "SDG" /\ Len(code_list) = 2
    /\ \E n \in DOMAIN df : meta[n] = 1 /\ InAllowList(n)
    /\ \E n \in DOMAIN df : meta[n] = 0 /\ ~LacksPrimary(n) /\ ~InAllowList(n)

\* C4 as claimed: the membership of a run is written at most once in a
\* pass, on every path.
C4_WrittenOnce == \A n \in DOMAIN df : writes[n] <= 1

\* C4 amended: a run the loop has passed has a definite membership 0 or 1,
\* written once on the gate-rejection, allow-list and all-rules-satisfied
\* paths and twice on the rule-violation path (the provisional 1, then the
\* 0 that replaces it); nothing is written for a run before the loop reaches
\* it, and nothing after the loop has passed it.
C4_WritesPerRun ==
    \A n \in DOMAIN df :
        /\ Finished(n) =>
              /\ n \in DOMAIN meta /\ meta[n] \in {0, 1}
              /\ writes[n] = IF RuleViolated(n) THEN 2 ELSE 1
              /\ RuleViolated(n) => meta[n] = 0
        /\ n = i =>
              /\ writes[n] = IF pc \in {"rules", "error"} THEN 1 ELSE 0
              /\ n \in DOMAIN meta <=> writes[n] = 1
              /\ n \in DOMAIN meta => meta[n] = 1
        /\ n > i => n \notin DOMAIN meta /\ writes[n] = 0

C4_Witness ==
    /\ pc = "done" /\ Len(df) = 2
    /\ writes[1] = 2 /\ meta[1] = 0
    /\ writes[2] = 1 /\ meta[2] = 1 /\ evals[2] # <<>>

\* C5 as claimed: a rule whose type is none of abs, change, share, cum
\* aborts the pass when it is reached.
C5_UnknownTypeAborts ==
    \A n \in DOMAIN df : \A p \in DOMAIN evals[n] :
        code_list[evals[n][p].k].type \notin KnownTypes => pc = "error"

\* The magnitude of the negative values the run at n reports for the rule's
\* measurand on the years start..end, both included.
CumMagnitude(n, rule) ==
    LET series == df[n].data[<<BaseName(rule.key), rule.unit>>]
        years == {y \in DOMAIN series :
                     rule.year[1] <= y /\ y <= rule.year[2] /\ series[y] < 0}
    IN RSum([y \in years |-> Rat(-series[y])], years)

\* C6 as claimed: a cumulative rule is violated exactly if the magnitude of
\* the negative values the run reports on the years start..end, the end
\* year included, is at most the threshold.  (Stated for a run whose series
\* reports every year of the dataset, where interpolation adds nothing.)
C6_CumulativeInclusive ==
    \A n \in DOMAIN df : \A p \in DOMAIN evals[n] :
        LET rule == code_list[evals[n][p].k]
        IN (/\ rule.type = "cum"
            /\ ~evals[n][p].err
            /\ Time(df) \subseteq DOMAIN df[n].data[<<BaseName(rule.key), rule.unit>>])
           => (evals[n][p].not_valid <=> RLe(CumMagnitude(n, rule), rule.threshold))

\* C7 as claimed: a run gets the same membership in two datasets that both
\* hold it with the same data (here: the dataset, and the run on its own).
C7_RunIndependence ==
    (pass = 2 /\ pc = "done"
        /\ <<df[1].model, df[1].scenario>> \in DOMAIN prev)
    => meta[1] = prev[<<df[1].model, df[1].scenario>>]

\* C8: the alias flag a rule is evaluated with is the run's own gate
\* outcome: true exactly for a HighRen run that lacks a primary requirement
\* and meets the alternate one; a HighRen run that lacks both is rejected
\* with no rule evaluated; in no other cluster is the flag ever true.
C8_AliasFlag ==
    /\ cluster_name # "HighRen" => ~highren_alt_var
    /\ pc \in {"select", "rules"} => highren_alt_var = AliasMode(i)
    /\ \A n \in DOMAIN df :
          /\ \A p \in DOMAIN evals[n] : evals[n][p].alt = AliasMode(n)
          /\ (cluster_name = "HighRen" /\ LacksPrimary(n) /\ LacksAlternate(n)) =>
                /\ evals[n] = <<>>
                /\ Finished(n) => meta[n] = 0
          /\ (AliasMode(n) /\ Finished(n) /\ code_list # <<>>) => evals[n] # <<>>

C8_Witness ==
    /\ pc = "done" /\ cluster_name = "HighRen" /\ Len(df) = 2
    /\ AliasMode(1) /\ evals[1] # <<>> /\ evals[1][1].alt
    /\ ~LacksPrimary(2) /\ evals[2] # <<>> /\ ~evals[2][1].alt

\* C9: in a rule-based cluster, a run that passed the gate and satisfies
\* every rule (none, for an empty catalog) has all the rules evaluated once
\* each in catalog order and ends with membership 1; a finished run has
\* membership 1 exactly if it passed the gate and no rule is violated.
C9_AllRulesPass ==
    \A n \in DOMAIN df :
        (cluster_name # "SDG" /\ Finished(n)) =>
            /\ (PassedGate(n) /\ \A kk \in DOMAIN code_list : Clean(n, kk)) =>
                  InOrder(n, Len(code_list)) /\ meta[n] = 1
            /\ meta[n] = 1 <=>
                  (PassedGate(n) /\ \A kk \in DOMAIN code_list : ~Verdict(n, kk).not_valid)

C9_Witness ==
    /\ pc = "done" /\ cluster_name # "SDG" /\ Len(code_list) = 2
    /\ \E n \in DOMAIN df :
          /\ PassedGate(n) /\ \A kk \in DOMAIN code_list : Clean(n, kk)
          /\ code_list[1].type \in KnownTypes /\ code_list[2].type \in KnownTypes
          /\ InOrder(n, 2) /\ meta[n] = 1

\* C10 as claimed: a share rule checks the bound on (numerator) / (value of
\* the part of the variable before its first "|"), and the numerator is the
\* rule's variable itself unless the run is in alias mode and the rule is
\* the HighRen rule on the renewables aggregate, the one combination with a
\* substitute pair.
C10_ShareNumerator ==
    \A n \in DOMAIN df : \A p \in DOMAIN evals[n] :
        LET rule == code_list[evals[n][p].k]
            designated ==
                cluster_name = "HighRen" /\ AliasMode(n) /\ BaseName(rule.key) = REN
        IN rule.type = "share" =>
              evals[n][p].varlist =
                  IF designated THEN <<BIO, NBR>> ELSE <<BaseName(rule.key)>>

====
